---- MODULE Spec2Model ----
(***************************************************************************)
(* A model of the RPC layer of src/src/core/rpc.cc: the per-key request    *)
(* queues (SyncRequestQueue, AsyncRequestQueue) and the NetworkThread      *)
(* engine (Send, NetworkLoop, CollectActive, Flush, SyncBroadcast).        *)
(*                                                                         *)
(* Threads are modelled at the granularity of their accesses to shared     *)
(* memory: a step is one locked region, or one access made outside any     *)
(* lock.  Vector indices are 0-based as in the source; the TLA+ sequence   *)
(* element of slot i is element i + 1.                                     *)
(***************************************************************************)
EXTENDS Integers, Sequences, FiniteSets, TLC

\* ------------------------------------------------------------------ bounds
\* keys the sync queue is fed
NumKeys == 3
\* Enqueue calls on the sync queue
MaxEnqueues == 4
\* keys the async queue is fed
NumAsyncKeys == 2
\* Enqueue calls on the async queue
MaxAsyncEnqueues == 3
\* largest num_mem_servers_ tried
MaxMemServers == 2
\* peers in the world (MPI size)
WorldSize == 3
\* destinations the callers of Send use
NumTargets == 2
\* Send calls made by caller threads
MaxSends == 2
\* inbound responses the transceiver receives
MaxInbound == 3
\* Shutdown calls an application thread makes
MaxShutdowns == 2
\* Distinct keys among the requests the engine receives.
NumEngineKeys == 1

Keys == 1..NumKeys
AsyncKeys == 1..NumAsyncKeys
NoKey == 0

\* ------------------------------------------------------- message kinds
MTYPE_PUT_REQUEST == "PUT_REQUEST"
MTYPE_GET_REQUEST == "GET_REQUEST"
RequestTags == {MTYPE_PUT_REQUEST, MTYPE_GET_REQUEST}
MTYPE_PUT_RESPONSE == "PUT_RESPONSE"
MTYPE_REPLY == "REPLY"
ResponseKinds == {MTYPE_PUT_RESPONSE, MTYPE_REPLY}
\* The tags an inbound message can carry: the indices of the per-tag arrays.
MessageKinds == RequestTags \cup ResponseKinds

\* Peer ids (ranks) of the world: 0 .. size - 1.
Peers == 0..(WorldSize - 1)
SendTargets == 0..(NumTargets - 1)

VARIABLES
  \* RequestQueue (base of both queues)
  num_mem_servers_,   \* N, fixed at construction
  key_map_,           \* key -> slot index, a std::map
  key_locks_,         \* one recursive mutex per slot: "free" or its holder
  key_index_,         \* the round-robin cursor
  \* SyncRequestQueue
  request_queues_,    \* vector<Queue>: one FIFO of TaggedMessage per slot
  \* AsyncRequestQueue
  put_queues_,        \* vector<Queue>: the PUT lane of each slot
  get_queues_,        \* vector<Queue>: the GET lane of each slot
  access_counters_,   \* vector<int>: envelopes taken from the current lane
  is_in_put_queue_,   \* vector<int>: 1 when the current lane is PUT
  is_first_update_,   \* vector: true until the slot's first drain
  counter, is_put,    \* NextRequest's int& into the two vectors above
  put_queue, get_queue,   \* NextRequest's put_queues_[key_index_], get_queues_[key_index_]
  \* the transceiver thread inside Enqueue
  enq_pc, enq_msg, enq_calls,
  \* the processor thread inside NextRequest
  next_pc, success, message, key_queue,
  \* NetworkThread
  running_,           \* the engine's running flag
  pending_sends_,     \* deque of RPCRequest waiting for the transceiver
  active_sends_,      \* unordered_set of RPCRequest handed to the transport
  send_lock,          \* recursive mutex of the two containers: "free" or its holder
  response_queue_,    \* [kind][source] -> FIFO of payloads
  net_pc, net_s,      \* the transceiver thread in NetworkLoop, and its RPCRequest *s
  finished,           \* the requests the transport has completed (mpi_req.Test)
  send_calls,         \* number of Send calls made
  flush_pc, flush_sum, flush_mark,    \* a caller thread inside Flush
  response_queue_locks_,   \* [kind] -> recursive mutex: "free" or its holder
  net_in,             \* the (tag, source) the transceiver has received
  inbound,            \* number of responses received
  bc_pc, bc_method, bc_reply, bc_i,   \* a caller thread inside SyncBroadcast
  count, bc_src, bc_sent,             \* WaitForSync's count, TryRead's i
  \* callers of Shutdown: the thread's position, its calls so far
  sd_pc, sd_calls,
  finalized,          \* number of MPI_Finalize calls made
  ctor_pc,            \* the thread inside the constructor of NetworkThread
  proc_pc,            \* the processor thread in ProcessLoop
  handled,            \* history: the calls of the request handler
  \* the process
  aborted,
  \* history
  enqueued, returned, freed, owed, checked,
  appended, issued, retired,
  arrived, taken

qvars == <<num_mem_servers_, key_map_, key_locks_, key_index_>>
svars == <<request_queues_, key_queue>>
lanerefs == <<put_queue, get_queue>>
avars == <<put_queues_, get_queues_, access_counters_, is_in_put_queue_, is_first_update_,
          counter, is_put, lanerefs>>
evars == <<enq_pc, enq_msg, enq_calls>>
nvars == <<next_pc, success, message>>
hvars == <<enqueued, returned, freed, owed, checked>>
queuevars == <<qvars, svars, avars, evars, nvars, hvars>>
sendvars == <<pending_sends_, active_sends_, send_lock, net_s, finished, send_calls>>
loopvars == <<running_, net_pc>>
flushvars == <<flush_pc, flush_sum, flush_mark>>
loggedvars == <<appended, issued, retired>>
recvvars == <<response_queue_locks_, net_in, inbound>>
callvars == <<bc_pc, bc_method, bc_reply, bc_i, count, bc_src, bc_sent>>
poolvars == <<arrived, taken>>
bcastvars == <<recvvars, callvars, poolvars>>
netvars == <<sendvars, loopvars, response_queue_, flushvars, loggedvars, bcastvars>>
shutvars == <<sd_pc, sd_calls, finalized>>
procvars == <<ctor_pc, proc_pc, handled>>
enginevars == <<shutvars, procvars>>
vars == <<queuevars, netvars, enginevars, aborted>>

\* ---------------------------------------------------------------- helpers
\* TaggedMessage(int t, const string &dat)
TaggedMessage(t, dat) == [tag |-> t, data |-> dat]

NoMessage == [tag |-> "none", data |-> [key |-> NoKey, seq |-> 0]]

\* The serialized HashGet / TableData of a request: its key field and the bytes
\* that tell one request from another.
Payload(k, n) == [key |-> k, seq |-> n]

\* RequestQueue::ExtractKey: the key field of the parsed message; the key stays
\* the empty string for any other tag.
ExtractKey(tag, data) ==
  IF tag = MTYPE_GET_REQUEST THEN data.key
  ELSE IF tag = MTYPE_PUT_REQUEST THEN data.key
  ELSE NoKey

\* std::vector::push_back moves the elements to a new buffer when the size has
\* reached the capacity; the capacity doubles (0, 1, 2, 4, ...), so this is when
\* the size is 0 or a power of two.  References into the old buffer dangle.
VectorReallocates(size) == size \in {0, 1, 2, 4, 8, 16}

Range(f) == {f[i] : i \in DOMAIN f}

NoRef == [slot |-> 0, state |-> "none", stale |-> <<>>]
NoIntRef == [state |-> "none", val |-> 0]

\* RPCRequest(int tgt, int method, const Message &ureq); id stands for the
\* object's address and payload.
RPCRequest(tgt, method, n) == [target |-> tgt, rpc_type |-> method, id |-> n]

NoRequest == [target |-> 0, rpc_type |-> "none", id |-> 0]

NoInbound == [tag |-> "none", source |-> 0]

Running == aborted = "no"

\* The threads that call Shutdown: an application thread, and the thread that
\* runs the atexit hook ShutdownMPI (lines 276-284), once.
ShutdownCallers == {"caller", "atexit"}

\* ------------------------------------------------------------------- Init
\* The members as the constructor finds them at line 74: empty containers, no
\* request queue contents, running_ set (line 73).
InitMembers ==
  /\ num_mem_servers_ \in 1..MaxMemServers
  /\ key_map_ = <<>>
  /\ key_locks_ = <<>>
  /\ key_index_ = 0
  /\ request_queues_ = <<>>
  /\ key_queue = NoRef
  /\ enq_pc = "idle"
  /\ enq_msg = NoMessage
  /\ enq_calls = 0
  /\ next_pc = "idle"
  /\ success = FALSE
  /\ message = NoMessage
  /\ aborted = "no"
  /\ enqueued = <<>>
  /\ returned = <<>>
  /\ freed = {}
  /\ owed = [k \in Keys |-> {}]
  /\ checked = [size |-> 0, passed |-> TRUE]
  /\ put_queues_ = <<>>
  /\ get_queues_ = <<>>
  /\ access_counters_ = <<>>
  /\ is_in_put_queue_ = <<>>
  /\ is_first_update_ = <<>>
  /\ counter = NoIntRef
  /\ is_put = NoIntRef
  /\ put_queue = "none"
  /\ get_queue = "none"
  /\ running_ = TRUE
  /\ pending_sends_ = <<>>
  /\ active_sends_ = {}
  /\ send_lock = "free"
  /\ response_queue_ = [kind \in MessageKinds |-> [source \in Peers |-> <<>>]]
  /\ net_s = NoRequest
  /\ finished = {}
  /\ send_calls = 0
  /\ flush_pc = "idle"
  /\ flush_sum = 0
  /\ flush_mark = {}
  /\ appended = <<>>
  /\ issued = <<>>
  /\ retired = <<>>
  /\ response_queue_locks_ = [kind \in MessageKinds |-> "free"]
  /\ net_in = NoInbound
  /\ inbound = 0
  /\ bc_pc = "idle"
  /\ bc_method = "none"
  /\ bc_reply = "none"
  /\ bc_i = 0
  /\ count = 0
  /\ bc_src = 0
  /\ bc_sent = <<>>
  /\ arrived = [kind \in MessageKinds |-> 0]
  /\ taken = <<>>
  /\ sd_pc = [t \in ShutdownCallers |-> "idle"]
  /\ sd_calls = [t \in ShutdownCallers |-> 0]
  /\ finalized = 0
  /\ handled = <<>>

\* The engine once its constructor has returned: both threads are in their
\* loops.
Init ==
  /\ InitMembers
  /\ net_pc = "probe"
  /\ proc_pc = "loop"
  /\ ctor_pc = "done"

\* The sync queue and the engine never read num_mem_servers_: their
\* specifications start from one value of it.
InitEngine == Init /\ num_mem_servers_ = 1

\* ------------------------------------------------ SyncRequestQueue::Enqueue
\* Lines 300-313: build the envelope, extract the key and, under
\* whole_queue_lock_, append the new slot's queue when the key is unseen.  The
\* append may reallocate request_queues_ while NextRequest holds a reference to
\* one of its elements.
SyncEnqueueBegin(tag, k) ==
  /\ enq_pc = "idle"
  /\ enq_calls < MaxEnqueues
  /\ enq_calls' = enq_calls + 1
  /\ enq_msg' = TaggedMessage(tag, Payload(k, enq_calls + 1))
  /\ LET key == ExtractKey(tag, Payload(k, enq_calls + 1)) IN
       IF key \notin DOMAIN key_map_
       THEN /\ request_queues_' = Append(request_queues_, <<>>)
            /\ key_queue' =
                 IF key_queue.state = "valid" /\ VectorReallocates(Len(request_queues_))
                 THEN [key_queue EXCEPT !.state = "dangling",
                                        !.stale = request_queues_[key_queue.slot + 1]]
                 ELSE key_queue
            /\ enq_pc' = "create"
       ELSE /\ UNCHANGED <<request_queues_, key_queue>>
            /\ enq_pc' = "insert"
  /\ UNCHANGED <<qvars, avars, nvars, aborted, hvars>>

\* Enqueue called on the queue as such: the caller's own state is left out.
SyncEnqueueCall(tag, k) ==
  /\ Running
  /\ UNCHANGED enginevars
  /\ UNCHANGED netvars
  /\ SyncEnqueueBegin(tag, k)

NewSlotIndexFirst(slots) == 0

\* Lines 312 and 366: the index of the slot just appended, size() - 1.
NewSlotIndex(slots) == Len(slots) - 1

\* Lines 310-313: key_locks_.push_back, then key_map_[key] = size - 1.
SyncEnqueueCreate ==
  /\ Running
  /\ UNCHANGED enginevars
  /\ UNCHANGED netvars
  /\ enq_pc = "create"
  /\ key_locks_' = Append(key_locks_, "free")
  /\ key_map_' = key_map_ @@ (ExtractKey(enq_msg.tag, enq_msg.data) :> NewSlotIndex(request_queues_))
  /\ enq_pc' = "insert"
  /\ UNCHANGED <<num_mem_servers_, key_index_, svars, avars, enq_msg, enq_calls, nvars, aborted,
                 hvars>>

\* Lines 315-321: append the envelope to the key's queue under the key's lock.
SyncEnqueueInsert ==
  /\ Running
  /\ UNCHANGED enginevars
  /\ UNCHANGED netvars
  /\ enq_pc = "insert"
  /\ LET idx == key_map_[ExtractKey(enq_msg.tag, enq_msg.data)] IN
       /\ key_locks_[idx + 1] = "free"
       /\ request_queues_' = [request_queues_ EXCEPT ![idx + 1] = Append(@, enq_msg)]
  /\ enqueued' = Append(enqueued, enq_msg)
  /\ enq_pc' = "idle"
  /\ UNCHANGED <<qvars, key_queue, avars, enq_msg, enq_calls, nvars, aborted, returned, freed,
                 owed, checked>>

\* -------------------------------------------- SyncRequestQueue::NextRequest
\* Line 328: bool success = false.
SyncNextBegin ==
  /\ next_pc = "idle"
  /\ next_pc' = "ref"
  /\ success' = FALSE
  /\ UNCHANGED <<qvars, svars, avars, evars, message, aborted, hvars>>

\* NextRequest called on the queue as such: the caller's own state is left out.
SyncNextCall ==
  /\ Running
  /\ UNCHANGED enginevars
  /\ UNCHANGED netvars
  /\ SyncNextBegin

\* Lines 330-332: sleep while both vectors are empty, then take a reference to
\* the cursor's queue.
SyncNextRef ==
  /\ Running
  /\ UNCHANGED enginevars
  /\ UNCHANGED netvars
  /\ next_pc = "ref"
  /\ ~(key_locks_ = <<>> /\ request_queues_ = <<>>)
  /\ IF key_index_ < Len(request_queues_)
     THEN /\ key_queue' = [slot |-> key_index_, state |-> "valid", stale |-> <<>>]
          /\ next_pc' = "visit"
          /\ UNCHANGED aborted
     ELSE /\ aborted' = "fault"
          /\ UNCHANGED <<key_queue, next_pc>>
  /\ UNCHANGED <<qvars, request_queues_, avars, evars, success, message, hvars>>

\* History: owed[k] is the set of keys whose FIFO was non-empty when an envelope
\* of k was last returned and for which none has been returned since.
NonEmptyKeys ==
  {j \in DOMAIN key_map_ : request_queues_[key_map_[j] + 1] # <<>>}

OwedAfter(k) ==
  [j \in Keys |-> IF j = k THEN NonEmptyKeys \ {k} ELSE owed[j] \ {k}]

\* What the processor thread does with the head q_msg of a queue it sees
\* non-empty (lines 337-342): copy tag and data out, delete the envelope.  An
\* envelope already deleted is read after free: the copy comes out, or the
\* process faults.
SyncTake(q_msg, pop) ==
  \/ /\ message' = q_msg
     /\ success' = TRUE
     /\ returned' = Append(returned, q_msg)
     /\ owed' = OwedAfter(q_msg.data.key)
     /\ UNCHANGED aborted
     /\ IF pop
        THEN /\ request_queues_' = [request_queues_ EXCEPT ![key_index_ + 1] = Tail(@)]
             /\ freed' = freed \ {q_msg}
        ELSE /\ UNCHANGED request_queues_
             /\ freed' = freed \cup {q_msg}
  \/ /\ q_msg \in freed
     /\ aborted' = "fault"
     /\ UNCHANGED <<message, success, returned, request_queues_, freed, owed>>

SyncSkip == UNCHANGED <<request_queues_, success, message, returned, freed, owed, aborted>>

\* Lines 333-344: lock the cursor's slot and pop the head of key_queue if there
\* is one.  Through a dangling key_queue the thread reads the freed element of
\* the old buffer: the queue as it was when the vector was reallocated (copied
\* elements), an empty queue (moved-from elements), or it faults.
SyncNextVisit ==
  /\ Running
  /\ UNCHANGED enginevars
  /\ UNCHANGED netvars
  /\ next_pc = "visit"
  /\ IF key_index_ >= Len(key_locks_)
     THEN /\ aborted' = "fault"
          /\ UNCHANGED <<request_queues_, next_pc, success, message, returned, freed, owed>>
     ELSE /\ key_locks_[key_index_ + 1] = "free"
          /\ next_pc' = "advance"
          /\ IF key_queue.state = "valid"
             THEN IF request_queues_[key_index_ + 1] # <<>>
                  THEN SyncTake(Head(request_queues_[key_index_ + 1]), TRUE)
                  ELSE SyncSkip
             ELSE \/ IF key_queue.stale # <<>>
                     THEN SyncTake(Head(key_queue.stale), FALSE)
                     ELSE SyncSkip
                  \/ SyncSkip
                  \/ /\ aborted' = "fault"
                     /\ UNCHANGED <<request_queues_, success, message, returned, freed, owed>>
  /\ key_queue' = NoRef
  /\ UNCHANGED <<qvars, avars, evars, enqueued, checked>>

\* Lines 345-347: advance the cursor; return on success, else retry.
SyncNextAdvance ==
  /\ Running
  /\ UNCHANGED enginevars
  /\ UNCHANGED netvars
  /\ next_pc = "advance"
  /\ key_index_' = (key_index_ + 1) % Len(request_queues_)
  /\ next_pc' = IF success THEN "idle" ELSE "ref"
  /\ UNCHANGED <<num_mem_servers_, key_map_, key_locks_, svars, avars, evars, success,
                 message, aborted, hvars>>

SyncNext ==
  \/ \E tag \in RequestTags, k \in Keys : SyncEnqueueCall(tag, k)
  \/ SyncEnqueueCreate
  \/ SyncEnqueueInsert
  \/ SyncNextCall
  \/ SyncNextRef
  \/ SyncNextVisit
  \/ SyncNextAdvance

SpecSync == InitEngine /\ [][SyncNext]_vars

\* ----------------------------------------------- AsyncRequestQueue::Enqueue
\* An int& taken by NextRequest dangles once push_back has moved its vector.
Invalidate(ref, vec) ==
  IF ref.state = "valid" /\ VectorReallocates(Len(vec))
  THEN [state |-> "dangling", val |-> vec[key_index_ + 1]]
  ELSE ref

\* The element NextRequest has reached through operator[] of a vector of lanes
\* is in the old buffer once push_back has moved that vector.
Moved(ref, vec) ==
  IF ref = "valid" /\ VectorReallocates(Len(vec)) THEN "dangling" ELSE ref

\* Lines 350-359: build the envelope, extract the key and, under
\* whole_queue_lock_ (which NextRequest never takes), start the new slot when the
\* key is unseen: put_queues_.push_back.
AsyncEnqueueCall(tag, k) ==
  /\ Running
  /\ UNCHANGED enginevars
  /\ UNCHANGED netvars
  /\ enq_pc = "idle"
  /\ enq_calls < MaxAsyncEnqueues
  /\ enq_calls' = enq_calls + 1
  /\ enq_msg' = TaggedMessage(tag, Payload(k, enq_calls + 1))
  /\ IF ExtractKey(tag, Payload(k, enq_calls + 1)) \notin DOMAIN key_map_
     THEN /\ put_queues_' = Append(put_queues_, <<>>)
          /\ put_queue' = Moved(put_queue, put_queues_)
          /\ enq_pc' = "create_get"
     ELSE /\ UNCHANGED <<put_queues_, put_queue>>
          /\ enq_pc' = "insert"
  /\ UNCHANGED <<qvars, svars, get_queues_, access_counters_, is_in_put_queue_,
                 is_first_update_, counter, is_put, get_queue, nvars, aborted, hvars>>

\* Line 360: get_queues_.push_back.
AsyncEnqueueCreateGet ==
  /\ Running
  /\ UNCHANGED enginevars
  /\ UNCHANGED netvars
  /\ enq_pc = "create_get"
  /\ get_queues_' = Append(get_queues_, <<>>)
  /\ get_queue' = Moved(get_queue, get_queues_)
  /\ enq_pc' = "create_lock"
  /\ UNCHANGED <<qvars, svars, put_queues_, access_counters_, is_in_put_queue_,
                 is_first_update_, counter, is_put, put_queue, enq_msg, enq_calls, nvars,
                 aborted, hvars>>

\* Line 361: key_locks_.push_back.
AsyncEnqueueCreateLock ==
  /\ Running
  /\ UNCHANGED enginevars
  /\ UNCHANGED netvars
  /\ enq_pc = "create_lock"
  /\ key_locks_' = Append(key_locks_, "free")
  /\ enq_pc' = "create_counter"
  /\ UNCHANGED <<num_mem_servers_, key_map_, key_index_, svars, avars, enq_msg, enq_calls,
                 nvars, aborted, hvars>>

\* Line 362: access_counters_.push_back(0).
AsyncEnqueueCreateCounter ==
  /\ Running
  /\ UNCHANGED enginevars
  /\ UNCHANGED netvars
  /\ enq_pc = "create_counter"
  /\ access_counters_' = Append(access_counters_, 0)
  /\ counter' = Invalidate(counter, access_counters_)
  /\ enq_pc' = "create_lane"
  /\ UNCHANGED <<qvars, svars, put_queues_, get_queues_, is_in_put_queue_, is_first_update_,
                 is_put, lanerefs, enq_msg, enq_calls, nvars, aborted, hvars>>

\* Line 363: is_in_put_queue_.push_back(1).
AsyncEnqueueCreateLane ==
  /\ Running
  /\ UNCHANGED enginevars
  /\ UNCHANGED netvars
  /\ enq_pc = "create_lane"
  /\ is_in_put_queue_' = Append(is_in_put_queue_, 1)
  /\ is_put' = Invalidate(is_put, is_in_put_queue_)
  /\ enq_pc' = "create_first"
  /\ UNCHANGED <<qvars, svars, put_queues_, get_queues_, access_counters_, is_first_update_,
                 counter, lanerefs, enq_msg, enq_calls, nvars, aborted, hvars>>

\* Lines 364-366: is_first_update_.push_back(true); key_map_[key] = size - 1.
AsyncEnqueueCreateFirst ==
  /\ Running
  /\ UNCHANGED enginevars
  /\ UNCHANGED netvars
  /\ enq_pc = "create_first"
  /\ is_first_update_' = Append(is_first_update_, TRUE)
  /\ key_map_' = key_map_ @@ (ExtractKey(enq_msg.tag, enq_msg.data) :> NewSlotIndex(put_queues_))
  /\ enq_pc' = "insert"
  /\ UNCHANGED <<num_mem_servers_, key_locks_, key_index_, svars, put_queues_, get_queues_,
                 access_counters_, is_in_put_queue_, counter, is_put, lanerefs, enq_msg,
                 enq_calls, nvars, aborted, hvars>>

LaneHasRoomInclusive(lane) == Len(lane) <= num_mem_servers_

\* CHECK_LT(lane.size(), num_mem_servers_) of lines 375 and 378.
LaneHasRoom(lane) == Len(lane) < num_mem_servers_

\* Lines 369-386: under the key's lock, check the lane's size against
\* num_mem_servers_ (a failed CHECK aborts the process) and append.
AsyncEnqueueInsert ==
  /\ Running
  /\ UNCHANGED enginevars
  /\ UNCHANGED netvars
  /\ enq_pc = "insert"
  /\ LET idx == key_map_[ExtractKey(enq_msg.tag, enq_msg.data)]
         lane == IF enq_msg.tag = MTYPE_GET_REQUEST
                 THEN get_queues_[idx + 1] ELSE put_queues_[idx + 1]
     IN /\ key_locks_[idx + 1] = "free"
        /\ checked' = [size |-> Len(lane), passed |-> LaneHasRoom(lane)]
        /\ IF ~LaneHasRoom(lane)
           THEN /\ aborted' = "check"
                /\ UNCHANGED <<put_queues_, get_queues_, enqueued, enq_pc>>
           ELSE /\ IF enq_msg.tag = MTYPE_GET_REQUEST
                   THEN /\ get_queues_' = [get_queues_ EXCEPT ![idx + 1] = Append(@, enq_msg)]
                        /\ UNCHANGED put_queues_
                   ELSE /\ put_queues_' = [put_queues_ EXCEPT ![idx + 1] = Append(@, enq_msg)]
                        /\ UNCHANGED get_queues_
                /\ enqueued' = Append(enqueued, enq_msg)
                /\ enq_pc' = "idle"
                /\ UNCHANGED aborted
  /\ UNCHANGED <<qvars, svars, access_counters_, is_in_put_queue_, is_first_update_, counter,
                 is_put, lanerefs, enq_msg, enq_calls, nvars, returned, freed, owed>>

\* ------------------------------------------- AsyncRequestQueue::NextRequest
AsyncNextCall ==
  /\ Running
  /\ UNCHANGED enginevars
  /\ UNCHANGED netvars
  /\ next_pc = "idle"
  /\ next_pc' = "lock"
  /\ success' = FALSE
  /\ UNCHANGED <<qvars, svars, avars, evars, message, aborted, hvars>>

IntRef(vec) ==
  IF key_index_ < Len(vec) THEN [state |-> "valid", val |-> 0]
  ELSE [state |-> "oob", val |-> 0]

\* Lines 396-403: sleep while both vectors are empty, lock the cursor's slot and
\* bind counter and is_put to the slot's elements.  key_locks_ may still be
\* shorter than put_queues_: the lock is then read past the end of the vector.
AsyncNextLock ==
  /\ Running
  /\ UNCHANGED enginevars
  /\ UNCHANGED netvars
  /\ next_pc = "lock"
  /\ ~(key_locks_ = <<>> /\ put_queues_ = <<>>)
  /\ IF key_index_ >= Len(key_locks_)
     THEN /\ aborted' = "fault"
          /\ UNCHANGED <<key_locks_, counter, is_put, lanerefs, next_pc>>
     ELSE /\ key_locks_[key_index_ + 1] = "free"
          /\ key_locks_' = [key_locks_ EXCEPT ![key_index_ + 1] = "next"]
          /\ counter' = IntRef(access_counters_)
          /\ is_put' = IntRef(is_in_put_queue_)
          /\ put_queue' = "valid"
          /\ get_queue' = "valid"
          /\ next_pc' = "body"
          /\ UNCHANGED aborted
  /\ UNCHANGED <<num_mem_servers_, key_map_, key_index_, svars, put_queues_, get_queues_,
                 access_counters_, is_in_put_queue_, is_first_update_, evars, success, message,
                 hvars>>

\* The value read through an int&: the element, or what the freed buffer held.
Deref(ref, vec) == IF ref.state = "valid" THEN vec[key_index_ + 1] ELSE ref.val

\* A write through an int& reaches the vector only while the reference is valid.
Assign(ref, vec, v) == IF ref.state = "valid" THEN [vec EXCEPT ![key_index_ + 1] = v] ELSE vec

\* deque::front of lines 407 and 426.
LaneFront(lane) == Head(lane)

\* Lines 405-423, the PUT lane: values of counter and is_put after one envelope
\* has been taken, as <<counter, is_put>>.
AfterPut(c, first) ==
  LET c1 == c + 1
      c2 == IF first THEN 0 ELSE c1
      p2 == IF first THEN 0 ELSE 1
  IN IF c2 = num_mem_servers_ THEN <<0, 0>> ELSE <<c2, p2>>

\* Lines 424-437, the GET lane.
AfterGet(c) ==
  IF c + 1 = num_mem_servers_ THEN <<0, 1>> ELSE <<c + 1, 0>>

AsyncTake(q_msg) ==
  /\ message' = q_msg
  /\ success' = TRUE
  /\ returned' = Append(returned, q_msg)

AsyncSkip ==
  UNCHANGED <<put_queues_, get_queues_, access_counters_, is_in_put_queue_,
              is_first_update_, message, success, returned, aborted>>

\* Lines 405-438, under the slot's lock: take one envelope from the current lane
\* if it has one.  Writes through a dangling counter or is_put are lost (they go
\* to the freed buffer).  A lane reached in the buffer its vector has left is
\* the moved-from deque (empty) or a copy of the lane, whose pop_front leaves
\* the lane itself as it was.  Any use of freed memory may fault instead.
AsyncNextBody ==
  /\ Running
  /\ UNCHANGED enginevars
  /\ UNCHANGED netvars
  /\ next_pc = "body"
  /\ LET i == key_index_ + 1
         lanePut == Deref(is_put, is_in_put_queue_) # 0
         c == Deref(counter, access_counters_)
         lane == IF lanePut THEN put_queues_[i] ELSE get_queues_[i]
         after == IF lanePut THEN AfterPut(c, is_first_update_[i]) ELSE AfterGet(c)
         Account ==
           /\ access_counters_' = Assign(counter, access_counters_, after[1])
           /\ is_in_put_queue_' = Assign(is_put, is_in_put_queue_, after[2])
           /\ is_first_update_' =
                IF lanePut THEN [is_first_update_ EXCEPT ![i] = FALSE] ELSE is_first_update_
         Fault ==
           /\ aborted' = "fault"
           /\ UNCHANGED <<put_queues_, get_queues_, access_counters_, is_in_put_queue_,
                          is_first_update_, message, success, returned>>
     IN IF counter.state = "oob" \/ is_put.state = "oob"
        THEN \/ /\ put_queues_[i] = <<>> /\ get_queues_[i] = <<>>
                /\ AsyncSkip
             \/ Fault
        ELSE \/ IF lane # <<>>
                THEN /\ AsyncTake(LaneFront(lane))
                     /\ IF lanePut
                        THEN /\ put_queues_' = [put_queues_ EXCEPT ![i] = Tail(@)]
                             /\ UNCHANGED get_queues_
                        ELSE /\ get_queues_' = [get_queues_ EXCEPT ![i] = Tail(@)]
                             /\ UNCHANGED put_queues_
                     /\ Account
                     /\ UNCHANGED aborted
                ELSE AsyncSkip
             \/ /\ (IF lanePut THEN put_queue ELSE get_queue) = "dangling"
                /\ \/ /\ lane # <<>>
                      /\ AsyncTake(LaneFront(lane))
                      /\ Account
                      /\ UNCHANGED <<put_queues_, get_queues_, aborted>>
                   \/ AsyncSkip
             \/ /\ \/ counter.state = "dangling"
                   \/ is_put.state = "dangling"
                   \/ (IF lanePut THEN put_queue ELSE get_queue) = "dangling"
                /\ Fault
  /\ next_pc' = "advance"
  /\ counter' = NoIntRef
  /\ is_put' = NoIntRef
  /\ put_queue' = "none"
  /\ get_queue' = "none"
  /\ UNCHANGED <<qvars, svars, evars, enqueued, freed, owed, checked>>

\* Lines 439-441: release the lock and advance the cursor modulo
\* get_queues_.size(); return on success, else retry.
AsyncNextAdvance ==
  /\ Running
  /\ UNCHANGED enginevars
  /\ UNCHANGED netvars
  /\ next_pc = "advance"
  /\ key_locks_' = [key_locks_ EXCEPT ![key_index_ + 1] = "free"]
  /\ key_index_' = (key_index_ + 1) % Len(get_queues_)
  /\ next_pc' = IF success THEN "idle" ELSE "lock"
  /\ UNCHANGED <<num_mem_servers_, key_map_, svars, avars, evars, success, message, aborted,
                 hvars>>

AsyncNext ==
  \/ \E tag \in RequestTags, k \in AsyncKeys : AsyncEnqueueCall(tag, k)
  \/ AsyncEnqueueCreateGet
  \/ AsyncEnqueueCreateLock
  \/ AsyncEnqueueCreateCounter
  \/ AsyncEnqueueCreateLane
  \/ AsyncEnqueueCreateFirst
  \/ AsyncEnqueueInsert
  \/ AsyncNextCall
  \/ AsyncNextLock
  \/ AsyncNextBody
  \/ AsyncNextAdvance

SpecAsync == Init /\ [][AsyncNext]_vars

\* ------------------------------------------------------ NetworkThread::Send
\* The kinds the callers send.
SendKinds == {MTYPE_PUT_REQUEST, MTYPE_REPLY}

\* Lines 231-239: Send(dst, method, msg) builds the RPCRequest and Send(req)
\* appends it to pending_sends_ under send_lock.
Send(dst, method) ==
  /\ send_lock = "free"
  /\ pending_sends_' = Append(pending_sends_, RPCRequest(dst, method, send_calls + 1))
  /\ appended' = Append(appended, RPCRequest(dst, method, send_calls + 1))
  /\ send_calls' = send_calls + 1

\* A caller thread calls Send.
SendCall(dst, method) ==
  /\ Running
  /\ UNCHANGED enginevars
  /\ send_calls < MaxSends
  /\ Send(dst, method)
  /\ UNCHANGED <<queuevars, active_sends_, send_lock, net_s, finished, loopvars,
                 response_queue_, bcastvars, flushvars, issued, retired, aborted>>

\* ----------------------------------------------- NetworkThread::NetworkLoop
\* Lines 121-123 and 146-148: the probe finds no inbound message; sleep.
NetSleep ==
  /\ Running
  /\ UNCHANGED enginevars
  /\ net_pc = "probe"
  /\ running_
  /\ net_pc' = "push"
  /\ UNCHANGED <<queuevars, sendvars, running_, response_queue_, bcastvars, flushvars, loggedvars,
                 aborted>>

PendingBack(q) == q[Len(q)]

\* deque::front of line 152.
PendingFront(q) == Head(q)

\* Lines 150-156: pending_sends_ is seen non-empty (read outside the lock); under
\* send_lock take its front, pop it and hand it to the transport (Isend).
NetPushOne ==
  /\ Running
  /\ UNCHANGED enginevars
  /\ net_pc = "push"
  /\ pending_sends_ # <<>>
  /\ send_lock = "free"
  /\ send_lock' = "net"
  /\ net_s' = PendingFront(pending_sends_)
  /\ pending_sends_' = Tail(pending_sends_)
  /\ issued' = Append(issued, PendingFront(pending_sends_))
  /\ net_pc' = "insert"
  /\ UNCHANGED <<queuevars, active_sends_, finished, send_calls, running_, response_queue_, bcastvars,
                 flushvars, appended, retired, aborted>>

\* Lines 157-158: active_sends_.insert(s); the lock is released.
NetInsert ==
  /\ Running
  /\ UNCHANGED enginevars
  /\ net_pc = "insert"
  /\ active_sends_' = active_sends_ \cup {net_s}
  /\ net_s' = NoRequest
  /\ send_lock' = "free"
  /\ net_pc' = "push"
  /\ UNCHANGED <<queuevars, pending_sends_, finished, send_calls, running_, response_queue_, bcastvars,
                 flushvars, loggedvars, aborted>>

\* Line 150: pending_sends_ is seen empty; the loop goes on to CollectActive.
NetPushDone ==
  /\ Running
  /\ UNCHANGED enginevars
  /\ net_pc = "push"
  /\ pending_sends_ = <<>>
  /\ net_pc' = "collect"
  /\ UNCHANGED <<queuevars, sendvars, running_, response_queue_, bcastvars, flushvars, loggedvars,
                 aborted>>

\* The orders in which an unordered_set of these elements can be iterated.
Orders(S) ==
  {f \in [1..Cardinality(S) -> S] : \A i, j \in 1..Cardinality(S) : i # j => f[i] # f[j]}

FinishedUntested(r) == TRUE

\* RPCRequest::finished (lines 34-36): mpi_req.Test.
Finished(r) == r \in finished

\* What one pass of CollectActive deletes, in the order of the iteration.
Reaped(order) == SelectSeq(order, Finished)

\* NetworkThread::CollectActive (lines 95-115), called at line 159: under
\* send_lock, iterate active_sends_ and delete and erase each finished request.
NetCollect ==
  /\ Running
  /\ UNCHANGED enginevars
  /\ net_pc = "collect"
  /\ IF active_sends_ = {}
     THEN UNCHANGED <<active_sends_, retired>>
     ELSE /\ send_lock = "free"
          /\ \E order \in Orders(active_sends_) :
               retired' = retired \o Reaped(order)
          /\ active_sends_' = {r \in active_sends_ : ~Finished(r)}
  /\ net_pc' = "probe"
  /\ UNCHANGED <<queuevars, pending_sends_, send_lock, net_s, finished, send_calls, running_,
                 response_queue_, bcastvars, flushvars, appended, issued, aborted>>

\* The transport completes a request it was handed; it promises no order.
TransportComplete(r) ==
  /\ Running
  /\ UNCHANGED enginevars
  /\ r \in Range(issued)
  /\ r \notin finished
  /\ finished' = finished \cup {r}
  /\ UNCHANGED <<queuevars, pending_sends_, active_sends_, send_lock, net_s, send_calls,
                 loopvars, response_queue_, bcastvars, flushvars, loggedvars, aborted>>

\* ----------------------------------------------------- NetworkThread::Flush
FlushCall ==
  /\ Running
  /\ UNCHANGED enginevars
  /\ flush_pc = "idle"
  /\ flush_pc' = "read"
  /\ flush_mark' = Range(appended)
  /\ UNCHANGED <<queuevars, sendvars, loopvars, response_queue_, bcastvars, flush_sum, loggedvars,
                 aborted>>

\* NetworkThread::active (lines 90-92), first operand of the sum: one of the two
\* sizes is read, outside send_lock; the order of the two reads is unspecified.
FlushReadFirst ==
  /\ Running
  /\ UNCHANGED enginevars
  /\ flush_pc = "read"
  /\ \/ /\ flush_sum' = Cardinality(active_sends_)
        /\ flush_pc' = "read_pending"
     \/ /\ flush_sum' = Len(pending_sends_)
        /\ flush_pc' = "read_active"
  /\ UNCHANGED <<queuevars, sendvars, loopvars, response_queue_, bcastvars, flush_mark, loggedvars,
                 aborted>>

\* active(), the second size.
ActiveSum ==
  flush_sum + (IF flush_pc = "read_pending" THEN Len(pending_sends_)
               ELSE Cardinality(active_sends_))

\* Lines 250-254: Flush sleeps and asks again while active(); else it returns.
FlushReadSecond ==
  /\ Running
  /\ UNCHANGED enginevars
  /\ flush_pc \in {"read_pending", "read_active"}
  /\ flush_pc' = IF ActiveSum > 0 THEN "read" ELSE "returned"
  /\ flush_sum' = 0
  /\ UNCHANGED <<queuevars, sendvars, loopvars, response_queue_, bcastvars, flush_mark, loggedvars,
                 aborted>>

NetNext ==
  \/ \E dst \in SendTargets, method \in SendKinds : SendCall(dst, method)
  \/ NetSleep
  \/ NetPushOne
  \/ NetInsert
  \/ NetPushDone
  \/ NetCollect
  \/ \E r \in Range(issued) : TransportComplete(r)
  \/ FlushCall
  \/ FlushReadFirst
  \/ FlushReadSecond

SpecNet == InitEngine /\ [][NetNext]_vars

\* ------------------------------------- NetworkThread::NetworkLoop, inbound
\* Lines 123-129 and 137-139: Iprobe finds a message of a response kind from
\* some source; Recv takes it and response_queue_locks_[tag] is locked.
NetRecv(tag, source) ==
  /\ Running
  /\ UNCHANGED enginevars
  /\ net_pc = "probe"
  /\ running_
  /\ inbound < MaxInbound
  /\ response_queue_locks_[tag] = "free"
  /\ response_queue_locks_' = [response_queue_locks_ EXCEPT ![tag] = "net"]
  /\ net_in' = [tag |-> tag, source |-> source]
  /\ inbound' = inbound + 1
  /\ net_pc' = "route"
  /\ UNCHANGED <<queuevars, sendvars, running_, response_queue_, flushvars, loggedvars,
                 callvars, poolvars, aborted>>

\* Lines 140-145: response_queue_[tag][source].push_back(data) and the lock is
\* released; no callback is registered for the kind.
NetRoute ==
  /\ Running
  /\ UNCHANGED enginevars
  /\ net_pc = "route"
  /\ response_queue_' =
       [response_queue_ EXCEPT ![net_in.tag][net_in.source] = Append(@, inbound)]
  /\ arrived' = [arrived EXCEPT ![net_in.tag] = @ + 1]
  /\ response_queue_locks_' = [response_queue_locks_ EXCEPT ![net_in.tag] = "free"]
  /\ net_in' = NoInbound
  /\ net_pc' = "push"
  /\ UNCHANGED <<queuevars, sendvars, running_, flushvars, loggedvars, inbound, callvars,
                 taken, aborted>>

\* ---------------------------------------------- NetworkThread::SyncBroadcast
\* Lines 263-264 and 257-258: SyncBroadcast(method, reply, msg) enters Broadcast.
BcastCall(method, reply) ==
  /\ Running
  /\ UNCHANGED enginevars
  /\ bc_pc = "idle"
  /\ bc_pc' = "broadcast"
  /\ bc_method' = method
  /\ bc_reply' = reply
  /\ bc_i' = 0
  /\ UNCHANGED <<queuevars, sendvars, loopvars, response_queue_, flushvars, loggedvars,
                 recvvars, count, bc_src, bc_sent, poolvars, aborted>>

BroadcastEndInclusive(size) == size

\* Line 258: the loop of Broadcast runs while i < size() - 1.
BroadcastEnd(size) == size - 1

\* Lines 258-260: for (i = 0; i < size() - 1; ++i) Send(i, method, msg).
BcastSend ==
  /\ Running
  /\ UNCHANGED enginevars
  /\ bc_pc = "broadcast"
  /\ bc_i < BroadcastEnd(WorldSize)
  /\ Send(bc_i, bc_method)
  /\ bc_sent' = Append(bc_sent, RPCRequest(bc_i, bc_method, send_calls + 1))
  /\ bc_i' = bc_i + 1
  /\ UNCHANGED <<queuevars, active_sends_, send_lock, net_s, finished, loopvars,
                 response_queue_, flushvars, issued, retired, recvvars, bc_pc, bc_method,
                 bc_reply, count, bc_src, poolvars, aborted>>

\* Lines 258 and 265: the loop of Broadcast ends; WaitForSync(reply, size() - 1).
BcastWait ==
  /\ Running
  /\ UNCHANGED enginevars
  /\ bc_pc = "broadcast"
  /\ bc_i >= BroadcastEnd(WorldSize)
  /\ count' = WorldSize - 1
  /\ bc_pc' = "wait"
  /\ UNCHANGED <<queuevars, sendvars, loopvars, response_queue_, flushvars, loggedvars,
                 recvvars, bc_method, bc_reply, bc_i, bc_src, bc_sent, poolvars, aborted>>

\* Lines 270-271 and 213-214: while (count > 0) Read(ANY_SOURCE, reply): TryRead
\* starts its scan of the sources at 0; with count at 0 the call returns.
WaitLoop ==
  /\ Running
  /\ UNCHANGED enginevars
  /\ bc_pc = "wait"
  /\ bc_pc' = IF count > 0 THEN "scan" ELSE "returned"
  /\ bc_src' = 0
  /\ UNCHANGED <<queuevars, sendvars, loopvars, response_queue_, flushvars, loggedvars,
                 recvvars, bc_method, bc_reply, bc_i, count, bc_sent, poolvars, aborted>>

\* Line 189 of check_queue: q.empty() is read outside the lock.  While the
\* transceiver is inside push_back on that very deque the read races with it and
\* may give either answer.
SeenNonEmpty(type, src) ==
  IF response_queue_locks_[type] = "net" /\ net_in.source = src
  THEN BOOLEAN
  ELSE {response_queue_[type][src] # <<>>}

\* Lines 214-215, 220 and 188-189: TryRead(i, reply) calls check_queue(i, reply);
\* a queue seen empty sends the scan to the next source.
ScanSource ==
  /\ Running
  /\ UNCHANGED enginevars
  /\ bc_pc = "scan"
  /\ bc_src < WorldSize
  /\ \E seen \in SeenNonEmpty(bc_reply, bc_src) :
       IF seen
       THEN bc_pc' = "locked" /\ bc_src' = bc_src
       ELSE bc_pc' = "scan" /\ bc_src' = bc_src + 1
  /\ UNCHANGED <<queuevars, sendvars, loopvars, response_queue_, flushvars, loggedvars,
                 recvvars, bc_method, bc_reply, bc_i, count, bc_sent, poolvars, aborted>>

\* Lines 206-208: Read goes on while TryRead fails.
ReadReturnsAnyway(found) == TRUE

ReadReturns(found) == found

\* Line 272: --count, once Read has returned.
AfterRead(found) == IF ReadReturns(found) THEN count - 1 ELSE count

QueueBack(q) == q[Len(q)]

\* Line 193: const string &s = q.front().
QueueFront(q) == Head(q)

\* Lines 190-198: under response_queue_locks_[type], look again; pop the front
\* of a non-empty queue and return true.
CheckQueueLocked ==
  /\ Running
  /\ UNCHANGED enginevars
  /\ bc_pc = "locked"
  /\ response_queue_locks_[bc_reply] = "free"
  /\ IF response_queue_[bc_reply][bc_src] = <<>>
     THEN /\ bc_pc' = "scan"
          /\ bc_src' = bc_src + 1
          /\ UNCHANGED <<response_queue_, taken, count>>
     ELSE /\ response_queue_' = [response_queue_ EXCEPT ![bc_reply][bc_src] = Tail(@)]
          /\ taken' = Append(taken, [by |-> "SyncBroadcast", kind |-> bc_reply,
                                     data |-> QueueFront(response_queue_[bc_reply][bc_src])])
          /\ count' = AfterRead(TRUE)
          /\ bc_pc' = IF ReadReturns(TRUE) THEN "wait" ELSE "scan"
          /\ bc_src' = IF ReadReturns(TRUE) THEN bc_src ELSE 0
  /\ UNCHANGED <<queuevars, sendvars, loopvars, flushvars, loggedvars, recvvars, bc_method,
                 bc_reply, bc_i, bc_sent, arrived, aborted>>

\* Lines 214, 227 and 206-207: the scan has passed the last source; TryRead
\* returns false, Read sleeps and tries again.
ScanFailed ==
  /\ Running
  /\ UNCHANGED enginevars
  /\ bc_pc = "scan"
  /\ bc_src >= WorldSize
  /\ count' = AfterRead(FALSE)
  /\ bc_pc' = IF ReadReturns(FALSE) THEN "wait" ELSE "scan"
  /\ bc_src' = 0
  /\ UNCHANGED <<queuevars, sendvars, loopvars, response_queue_, flushvars, loggedvars,
                 recvvars, bc_method, bc_reply, bc_i, bc_sent, poolvars, aborted>>

\* Another caller thread's TryRead(src, type) takes an envelope (lines 220 and
\* 190-198).
OtherTryRead(src, type) ==
  /\ Running
  /\ UNCHANGED enginevars
  /\ response_queue_locks_[type] = "free"
  /\ response_queue_[type][src] # <<>>
  /\ response_queue_' = [response_queue_ EXCEPT ![type][src] = Tail(@)]
  /\ taken' = Append(taken, [by |-> "other", kind |-> type,
                             data |-> QueueFront(response_queue_[type][src])])
  /\ UNCHANGED <<queuevars, sendvars, loopvars, flushvars, loggedvars, recvvars, callvars,
                 arrived, aborted>>

BcastNext ==
  \/ \E method \in SendKinds, reply \in ResponseKinds : BcastCall(method, reply)
  \/ BcastSend
  \/ BcastWait
  \/ WaitLoop
  \/ ScanSource
  \/ CheckQueueLocked
  \/ ScanFailed
  \/ \E src \in Peers, type \in ResponseKinds : OtherTryRead(src, type)
  \/ \E tag \in ResponseKinds, source \in Peers : NetRecv(tag, source)
  \/ NetRoute
  \/ NetSleep
  \/ NetPushOne
  \/ NetInsert
  \/ NetPushDone
  \/ NetCollect
  \/ \E r \in Range(issued) : TransportComplete(r)

SpecBcast == InitEngine /\ [][BcastNext]_vars

\* ---------------------------------------------------- NetworkThread::Shutdown
\* Lines 241-243: Shutdown reads running_ (no lock is taken); a false flag ends
\* the call.
ShutdownCall(t) ==
  /\ aborted = "no"
  /\ sd_pc[t] = "idle"
  /\ sd_calls[t] < (IF t = "atexit" THEN 1 ELSE MaxShutdowns)
  /\ sd_calls' = [sd_calls EXCEPT ![t] = @ + 1]
  /\ sd_pc' = [sd_pc EXCEPT ![t] = IF running_ THEN "set" ELSE "idle"]
  /\ UNCHANGED <<queuevars, netvars, finalized, procvars, aborted>>

\* Line 244: running_ = false.
ShutdownSet(t) ==
  /\ aborted = "no"
  /\ sd_pc[t] = "set"
  /\ running_' = FALSE
  /\ sd_pc' = [sd_pc EXCEPT ![t] = "finalize"]
  /\ UNCHANGED <<queuevars, sendvars, net_pc, response_queue_, flushvars, loggedvars,
                 bcastvars, sd_calls, finalized, procvars, aborted>>

\* Line 245: MPI_Finalize().
ShutdownFinalize(t) ==
  /\ aborted = "no"
  /\ sd_pc[t] = "finalize"
  /\ finalized' = finalized + 1
  /\ sd_pc' = [sd_pc EXCEPT ![t] = "idle"]
  /\ UNCHANGED <<queuevars, netvars, sd_calls, procvars, aborted>>

\* Line 121: the transceiver reads running_ false at the top of its loop and
\* NetworkLoop returns.
NetExit ==
  /\ aborted = "no"
  /\ net_pc = "probe"
  /\ ~running_
  /\ net_pc' = "exited"
  /\ UNCHANGED <<queuevars, sendvars, running_, response_queue_, flushvars, loggedvars,
                 bcastvars, enginevars, aborted>>

ShutdownNext ==
  \/ \E t \in ShutdownCallers : ShutdownCall(t)
  \/ \E t \in ShutdownCallers : ShutdownSet(t)
  \/ \E t \in ShutdownCallers : ShutdownFinalize(t)
  \/ NetExit
  \/ \E dst \in SendTargets, method \in SendKinds : SendCall(dst, method)
  \/ NetSleep
  \/ NetPushOne
  \/ NetInsert
  \/ NetPushDone
  \/ NetCollect
  \/ \E r \in Range(issued) : TransportComplete(r)

SpecShutdown == InitEngine /\ [][ShutdownNext]_vars

\* Broadcast alone: the caller inside Broadcast, other callers of Send and the
\* transceiver pushing the pending list through.
FanoutNext ==
  \/ \E method \in SendKinds, reply \in ResponseKinds : BcastCall(method, reply)
  \/ BcastSend
  \/ BcastWait
  \/ \E dst \in SendTargets, method \in SendKinds : SendCall(dst, method)
  \/ NetSleep
  \/ NetPushOne
  \/ NetInsert
  \/ NetPushDone
  \/ NetCollect
  \/ \E r \in Range(issued) : TransportComplete(r)

SpecFanout == InitEngine /\ [][FanoutNext]_vars

\* ------------------------------ NetworkLoop and ProcessLoop, request traffic
\* The keys of the requests the engine receives.
EngineKeys == 1..NumEngineKeys

\* Message::ParseFromArray of lines 181, 289 and 293: false when the bytes are
\* not a message of the type.  Bytes without the required key field are such;
\* key() of the message is then the empty string.
ParseFromArray(data) == data.key # NoKey

IsRequestPutOnly(tag) == tag = MTYPE_PUT_REQUEST

\* Line 135: tag == MTYPE_PUT_REQUEST || tag == MTYPE_GET_REQUEST.
IsRequest(tag) == tag = MTYPE_PUT_REQUEST \/ tag = MTYPE_GET_REQUEST

\* Lines 123-139: Iprobe has found a message and Recv has read it; a request
\* goes to the request queue, any other message to the response pool, whose
\* lock for the tag is taken.  k is the key field of a request's bytes, NoKey
\* when the bytes do not parse.
NetProbe(tag, source, k) ==
  /\ Running
  /\ UNCHANGED enginevars
  /\ net_pc = "probe"
  /\ running_
  /\ inbound < MaxInbound
  /\ tag \in ResponseKinds => k = NoKey
  /\ inbound' = inbound + 1
  /\ net_in' = [tag |-> tag, source |-> source, key |-> k]
  /\ IF IsRequest(tag)
     THEN /\ net_pc' = "enqueue"
          /\ UNCHANGED response_queue_locks_
     ELSE /\ response_queue_locks_[tag] = "free"
          /\ response_queue_locks_' = [response_queue_locks_ EXCEPT ![tag] = "net"]
          /\ net_pc' = "store"
  /\ UNCHANGED <<queuevars, sendvars, running_, response_queue_, flushvars, loggedvars,
                 callvars, poolvars, aborted>>

\* Line 140: response_queue_[tag][source].push_back(data); the lock is released
\* at the end of the block.
NetStore ==
  /\ Running
  /\ UNCHANGED enginevars
  /\ net_pc = "store"
  /\ response_queue_' =
       [response_queue_ EXCEPT ![net_in.tag][net_in.source] = Append(@, inbound)]
  /\ arrived' = [arrived EXCEPT ![net_in.tag] = @ + 1]
  /\ response_queue_locks_' = [response_queue_locks_ EXCEPT ![net_in.tag] = "free"]
  /\ net_pc' = "callback"
  /\ UNCHANGED <<queuevars, sendvars, running_, flushvars, loggedvars, net_in, inbound,
                 callvars, taken, aborted>>

\* Line 136: request_queue_->Enqueue(tag, data).  request_queue_ is assigned at
\* lines 84-87 of the constructor; read before that it is an uninitialized
\* pointer and the call through it faults.
NetEnqueue ==
  /\ Running
  /\ UNCHANGED enginevars
  /\ net_pc = "enqueue"
  /\ net_pc' = "enqueuing"
  /\ IF ctor_pc = "done"
     THEN SyncEnqueueBegin(net_in.tag, net_in.key)
     ELSE /\ aborted' = "fault"
          /\ UNCHANGED queuevars
  /\ UNCHANGED <<sendvars, running_, response_queue_, flushvars, loggedvars, bcastvars>>

\* Line 136: Enqueue has returned.
NetEnqueued ==
  /\ Running
  /\ UNCHANGED enginevars
  /\ net_pc = "enqueuing"
  /\ enq_pc = "idle"
  /\ net_pc' = "callback"
  /\ UNCHANGED <<queuevars, sendvars, running_, response_queue_, flushvars, loggedvars,
                 bcastvars, aborted>>

\* Lines 143-145: callbacks_[tag] is read; no callback is registered, so once
\* the constructor has cleared the table (lines 78-81) nothing is called.  Read
\* before that the entry is uninitialized: it reads as empty, or the call faults.
NetCallback ==
  /\ Running
  /\ UNCHANGED enginevars
  /\ net_pc = "callback"
  /\ net_pc' = "push"
  /\ net_in' = NoInbound
  /\ \/ UNCHANGED aborted
     \/ /\ ctor_pc \notin {"create", "done"}
        /\ aborted' = "fault"
  /\ UNCHANGED <<queuevars, sendvars, running_, response_queue_, flushvars, loggedvars,
                 response_queue_locks_, inbound, callvars, poolvars>>

\* Lines 166-167: the processor finds running_ set and is about to call
\* NextRequest.
ProcessLoop ==
  /\ Running
  /\ proc_pc = "loop"
  /\ running_
  /\ proc_pc' = "call"
  /\ UNCHANGED <<queuevars, netvars, shutvars, ctor_pc, handled, aborted>>

\* Line 168: request_queue_->NextRequest(&msg), through the pointer the
\* constructor assigns at lines 84-87.
ProcNextRequest ==
  /\ Running
  /\ proc_pc = "call"
  /\ proc_pc' = "next"
  /\ IF ctor_pc = "done"
     THEN SyncNextBegin
     ELSE /\ aborted' = "fault"
          /\ UNCHANGED queuevars
  /\ UNCHANGED <<netvars, shutvars, ctor_pc, handled>>

\* Lines 169 and 173-183: NextRequest has returned; ProcessRequest parses the
\* payload into the message of the tag, does not look at the result of
\* ParseFromArray, and calls handles_[tag].
ProcessRequest ==
  /\ Running
  /\ proc_pc = "next"
  /\ next_pc = "idle"
  /\ handled' = Append(handled, [tag |-> message.tag, data |-> message.data,
                                 parsed |-> ParseFromArray(message.data)])
  /\ proc_pc' = "loop"
  /\ UNCHANGED <<queuevars, netvars, shutvars, ctor_pc, aborted>>

EngineNext ==
  \/ \E tag \in MessageKinds, source \in Peers, k \in EngineKeys \cup {NoKey} :
       NetProbe(tag, source, k)
  \/ NetStore
  \/ NetEnqueue
  \/ SyncEnqueueCreate
  \/ SyncEnqueueInsert
  \/ NetEnqueued
  \/ NetCallback
  \/ NetSleep
  \/ NetPushDone
  \/ NetCollect
  \/ ProcessLoop
  \/ ProcNextRequest
  \/ SyncNextRef
  \/ SyncNextVisit
  \/ SyncNextAdvance
  \/ ProcessRequest

SpecEngine == InitEngine /\ [][EngineNext]_vars

\* ------------------------------------------- NetworkThread::NetworkThread
\* Lines 74-75: the transceiver thread is started.
CtorSpawnNet ==
  /\ Running
  /\ ctor_pc = "spawn_net"
  /\ ctor_pc' = "spawn_proc"
  /\ net_pc' = "probe"
  /\ UNCHANGED <<queuevars, sendvars, running_, response_queue_, flushvars, loggedvars,
                 bcastvars, shutvars, proc_pc, handled, aborted>>

\* Line 76: the processor thread is started.
CtorSpawnProc ==
  /\ Running
  /\ ctor_pc = "spawn_proc"
  /\ ctor_pc' = "clear"
  /\ proc_pc' = "loop"
  /\ UNCHANGED <<queuevars, netvars, shutvars, handled, aborted>>

\* Lines 77-81: callbacks_ and handles_ are cleared.
CtorClear ==
  /\ Running
  /\ ctor_pc = "clear"
  /\ ctor_pc' = "create"
  /\ UNCHANGED <<queuevars, netvars, shutvars, proc_pc, handled, aborted>>

\* Lines 83-87: the request queue is created and request_queue_ assigned.
CtorCreate ==
  /\ Running
  /\ ctor_pc = "create"
  /\ ctor_pc' = "done"
  /\ UNCHANGED <<queuevars, netvars, shutvars, proc_pc, handled, aborted>>

\* The constructor at line 74: no thread is started yet.
InitStartup ==
  /\ InitMembers
  /\ num_mem_servers_ = 1
  /\ net_pc = "unstarted"
  /\ proc_pc = "unstarted"
  /\ ctor_pc = "spawn_net"

StartupNext ==
  \/ CtorSpawnNet
  \/ CtorSpawnProc
  \/ CtorClear
  \/ CtorCreate
  \/ EngineNext

SpecStartup == InitStartup /\ [][StartupNext]_vars

\* ------------------------------------------------------------ claim helpers
OfKey(log, k) == SelectSeq(log, LAMBDA m : m.data.key = k)

IsPrefix(s, t) == Len(s) <= Len(t) /\ SubSeq(t, 1, Len(s)) = s

\* C1: for every key, the envelopes NextRequest of the sync queue has returned
\* are, in order and unchanged (tag and payload), an initial part of the
\* envelopes Enqueue appended for that key: same order, none twice, none altered.
C1_SyncPerKeyFifo ==
  \A k \in Keys : IsPrefix(OfKey(returned, k), OfKey(enqueued, k))

\* C2: an envelope of key k is returned only when every other key whose FIFO was
\* non-empty at k's previous return has had an envelope returned in between.
C2_SyncRoundRobin ==
  [][\A k \in Keys :
       (Len(returned') = Len(returned) + 1 /\ returned'[Len(returned')].data.key = k)
         => owed[k] = {}]_vars

OfKeyTag(log, k, tag) == SelectSeq(log, LAMBDA m : m.data.key = k /\ m.tag = tag)

\* The tags of the envelopes returned for key k, in the order of their return.
TagsOf(k) == [i \in 1..Len(OfKey(returned, k)) |-> OfKey(returned, k)[i].tag]

\* C3: for every key, the tags returned after the first drain read
\* GET^N PUT^N GET^N ... with N = num_mem_servers_: the i-th envelope after the
\* first drain is a GET when (i - 1) \div N is even and a PUT when it is odd.
C3_AsyncLaneAlternation ==
  \A k \in AsyncKeys :
    \A i \in 2..Len(TagsOf(k)) :
      TagsOf(k)[i] = IF ((i - 2) \div num_mem_servers_) % 2 = 0
                     THEN MTYPE_GET_REQUEST ELSE MTYPE_PUT_REQUEST

\* C4: for every key, the first envelope returned is a PUT and the second one
\* is a GET.
C4_AsyncFirstDrain ==
  \A k \in AsyncKeys :
    /\ Len(TagsOf(k)) >= 1 => TagsOf(k)[1] = MTYPE_PUT_REQUEST
    /\ Len(TagsOf(k)) >= 2 => TagsOf(k)[2] = MTYPE_GET_REQUEST

\* C5: no lane ever holds more than N envelopes; the CHECK of Enqueue has failed
\* (and the process aborted on it) exactly when the lane it looked at held N
\* envelopes, and then nothing was appended.
C5_AsyncLaneBound ==
  /\ \A i \in 1..Len(put_queues_) : Len(put_queues_[i]) <= num_mem_servers_
  /\ \A i \in 1..Len(get_queues_) : Len(get_queues_[i]) <= num_mem_servers_
  /\ checked.passed <=> checked.size < num_mem_servers_
  /\ aborted = "check" <=> ~checked.passed
  /\ aborted = "check" => enq_msg \notin Range(enqueued)

\* With N = 2 the third envelope for one lane has failed the CHECK.
C5_ThirdAborts ==
  /\ aborted = "check"
  /\ num_mem_servers_ = 2
  /\ checked = [size |-> 2, passed |-> FALSE]
  /\ Len(enqueued) = 2

\* C6: for every key and each lane, the envelopes returned from that lane are,
\* in order, an initial part of the envelopes appended to it.
C6_AsyncPerLaneFifo ==
  \A k \in AsyncKeys : \A tag \in RequestTags :
    IsPrefix(OfKeyTag(returned, k, tag), OfKeyTag(enqueued, k, tag))

OfPair(log, dst, kind) == SelectSeq(log, LAMBDA r : r.target = dst /\ r.rpc_type = kind)

\* C7: for every (destination, kind), the requests handed to the transport are,
\* in order, an initial part of the requests Send appended for that pair, and
\* every appended request is either still pending or was handed over once.
C7_SendInitiationOrder ==
  /\ \A dst \in Peers : \A kind \in SendKinds :
       IsPrefix(OfPair(issued, dst, kind), OfPair(appended, dst, kind))
  /\ appended = issued \o pending_sends_

\* Two requests of one (destination, kind) were pending together and both have
\* been handed to the transport.
C7_TwoIssued ==
  /\ Len(issued) = 2
  /\ issued[1].target = issued[2].target
  /\ issued[1].rpc_type = issued[2].rpc_type
  /\ net_pc = "collect"

\* C8 as stated: for every (destination, kind), the requests the reaper has
\* retired are, in order, an initial part of the requests appended for that pair.
C8_SendCompletionOrder ==
  \A dst \in Peers : \A kind \in SendKinds :
    IsPrefix(OfPair(retired, dst, kind), OfPair(appended, dst, kind))

\* C8 as amended: for every (destination, kind) the requests are handed to the
\* transport in the order Send appended them; the reaper retires a request only
\* once it was handed over and the transport reports it finished, each request
\* once, and a retired request is no longer in active_sends_.  The order of the
\* retirements is left open.
C8_RetiredOnceWhenFinished ==
  /\ \A dst \in Peers : \A kind \in SendKinds :
       IsPrefix(OfPair(issued, dst, kind), OfPair(appended, dst, kind))
  /\ \A i, j \in 1..Len(retired) : i # j => retired[i] # retired[j]
  /\ Range(retired) \subseteq (finished \cap Range(issued))
  /\ Range(retired) \cap active_sends_ = {}
  /\ active_sends_ \cup Range(retired) \cup (IF net_pc = "insert" THEN {net_s} ELSE {})
       = Range(issued)

\* Two requests of one (destination, kind) were retired against their order.
C8_RetiredOutOfOrder ==
  /\ Len(retired) = 2
  /\ retired[1].target = retired[2].target
  /\ retired[1].rpc_type = retired[2].rpc_type
  /\ retired[1].id > retired[2].id

\* C9 as stated: when Flush has returned, every request appended before the call
\* has been retired by the reaper.
C9_FlushDrains ==
  flush_pc = "returned" => flush_mark \subseteq Range(retired)

\* The envelopes the SyncBroadcast call has removed from the response pool.
TakenByCall == SelectSeq(taken, LAMBDA t : t.by = "SyncBroadcast")

\* C10: when SyncBroadcast has returned, the call has removed exactly size - 1
\* envelopes from the response pool, all of kind reply, each one an envelope
\* that had arrived (so at least size - 1 replies had arrived), and it had
\* appended its size - 1 sends, one to each of the ranks 0 .. size - 2, before.
C10_SyncBroadcastCompletion ==
  /\ bc_pc \in {"wait", "scan", "locked", "returned"} =>
       /\ Len(bc_sent) = WorldSize - 1
       /\ \A i \in 1..Len(bc_sent) :
            /\ bc_sent[i].target = i - 1
            /\ bc_sent[i].rpc_type = bc_method
            /\ bc_sent[i] \in Range(appended)
       /\ Len(TakenByCall) + count = WorldSize - 1
  /\ bc_pc = "returned" =>
       /\ Len(TakenByCall) = WorldSize - 1
       /\ arrived[bc_reply] >= WorldSize - 1
  /\ \A i \in 1..Len(TakenByCall) : TakenByCall[i].kind = bc_reply
  /\ \A i, j \in 1..Len(taken) : i # j => taken[i].data # taken[j].data
  /\ \A kind \in ResponseKinds :
       Len(SelectSeq(taken, LAMBDA t : t.kind = kind)) <= arrived[kind]

\* SyncBroadcast has returned although another reader took a reply as well.
C10_Returned ==
  /\ bc_pc = "returned"
  /\ \E i \in 1..Len(taken) : taken[i].by = "other" /\ taken[i].kind = bc_reply

\* The requests Broadcast has appended, as they lie in the log of all appends.
BroadcastAppended == SelectSeq(appended, LAMBDA r : r \in Range(bc_sent))

\* C11: when Broadcast has ended, the requests it appended to the pending list
\* are one for each rank 0 .. size - 2, in ascending order of the rank and of
\* the method given, and none for rank size - 1; while it runs they are the
\* first bc_i of these.
C11_BroadcastTargets ==
  /\ BroadcastAppended = bc_sent
  /\ appended = issued \o pending_sends_
  /\ Len(bc_sent) = bc_i
  /\ \A i \in 1..Len(bc_sent) :
       bc_sent[i].target = i - 1 /\ bc_sent[i].rpc_type = bc_method
  /\ \A i \in 1..Len(bc_sent) : bc_sent[i].target # WorldSize - 1
  /\ bc_pc \notin {"idle", "broadcast"} => Len(bc_sent) = WorldSize - 1

\* Broadcast has ended with other callers' requests in the pending list
\* before and between its own.
C11_BroadcastEnded ==
  /\ bc_pc = "wait"
  /\ Len(appended) > Len(bc_sent)
  /\ appended[1] \notin Range(bc_sent)

\* C12: the transport finalizer is never invoked twice; when Shutdown has been
\* called and no call is in progress, running_ is false and the finalizer has
\* been invoked exactly once.
C12_ShutdownOnce ==
  /\ finalized <= 1
  /\ ((\A t \in ShutdownCallers : sd_pc[t] = "idle") /\ (\E t \in ShutdownCallers : sd_calls[t] > 0))
       => (~running_ /\ finalized = 1)

\* A transport operation of the transceiver: the probe (with or without a
\* receive), the non-blocking send, the completion tests of CollectActive.
TransportStep ==
  \/ net_pc = "probe" /\ net_pc' \in {"push", "route"}
  \/ issued' # issued
  \/ net_pc = "collect" /\ net_pc' = "probe" /\ active_sends_ # {}

\* C20: once the transport finalizer has been invoked, the transceiver makes no
\* transport operation.
C20_NoTransportAfterFinalize ==
  [][finalized > 0 => ~TransportStep]_vars

\* Payloads carry the number of their reception: the transport-received order
\* of a FIFO is the ascending one.
Ascending(q) == \A i, j \in 1..Len(q) : i < j => q[i] < q[j]

\* Every FIFO holds its payloads in the order of their reception, and a payload
\* a reader has taken was taken once and is in no FIFO any more.
PoolInOrder ==
  /\ \A kind \in ResponseKinds : \A source \in Peers :
       /\ Ascending(response_queue_[kind][source])
       /\ \A i \in 1..Len(taken) : taken[i].data \notin Range(response_queue_[kind][source])
  /\ \A i, j \in 1..Len(taken) : i # j => taken[i].data # taken[j].data

\* A step in which a reader takes a payload removes exactly the head of one
\* FIFO of the kind read, the payload handed out, and leaves the other FIFOs as
\* they were; a step in which no reader takes one removes nothing.
PollStep ==
  IF taken' # taken
  THEN LET t == taken'[Len(taken')]
       IN /\ taken' = Append(taken, t)
          /\ \E source \in Peers :
               /\ response_queue_[t.kind][source] # <<>>
               /\ t.data = Head(response_queue_[t.kind][source])
               /\ response_queue_' = [response_queue_ EXCEPT ![t.kind][source] = Tail(@)]
  ELSE \A kind \in ResponseKinds : \A source \in Peers :
         IsPrefix(response_queue_[kind][source], response_queue_'[kind][source])

\* C14: a successful read of (kind, source) returns and removes the head of
\* that FIFO and leaves the others alone, an unsuccessful one changes nothing;
\* every FIFO is in the order of reception, so for every (kind, source) the
\* payloads reach the readers in that order, each at most once.
C14_ResponsePoolFifo ==
  []PoolInOrder /\ [][PollStep]_vars

\* Two readers have taken payloads of one kind while the transceiver holds the
\* kind's lock for an append.
C14_TwoReaders ==
  /\ \E i, j \in 1..Len(taken) :
       i < j /\ taken[i].kind = taken[j].kind /\ taken[i].by # taken[j].by
  /\ net_pc = "route"

\* The parallel vectors NextRequest reads at the cursor: those of the sync queue
\* when the thread is in SyncRequestQueue::NextRequest, those of the async queue
\* when it is in AsyncRequestQueue::NextRequest.
SlotVectorLengths ==
  IF next_pc = "visit"
  THEN {Len(request_queues_), Len(key_locks_)}
  ELSE {Len(put_queues_), Len(get_queues_), Len(key_locks_), Len(access_counters_),
        Len(is_in_put_queue_), Len(is_first_update_)}

\* C18: when NextRequest has left its wait loop and is about to read the
\* cursor's slot (the lock and the queue of the sync queue; the counter, the
\* lane flag, the first-drain flag and the lanes of the async queue), the cursor
\* is smaller than the length of every parallel vector: the slot is fully
\* created.
C18_NextRequestCreatedSlots ==
  next_pc \in {"visit", "body"} => \A len \in SlotVectorLengths : key_index_ < len

\* C16: every envelope enqueued into the sync queue is eventually returned by
\* NextRequest.  A process that has faulted takes no further step, so an
\* envelope it has not returned by then is never returned: the processor never
\* stops with an enqueued envelope still unreturned.
C16_SyncNoStarvation ==
  aborted = "fault" => Range(enqueued) \subseteq Range(returned)

\* Distinct keys have distinct slot indices.
SlotsDistinct ==
  \A j, k \in DOMAIN key_map_ : j # k => key_map_[j] # key_map_[k]

\* A step keeps the index of every key that has one and removes no slot; a
\* slot is appended, and a key gets its index, only in an Enqueue whose key had
\* no index and of which no envelope was enqueued before.
SlotStep ==
  /\ \A k \in DOMAIN key_map_ : k \in DOMAIN key_map_' /\ key_map_'[k] = key_map_[k]
  /\ Len(request_queues_') >= Len(request_queues_)
  /\ Len(put_queues_') >= Len(put_queues_)
  /\ (Len(request_queues_') > Len(request_queues_) \/ Len(put_queues_') > Len(put_queues_))
       => /\ enq_pc = "idle" /\ enq_pc' # "idle"
          /\ ExtractKey(enq_msg'.tag, enq_msg'.data) \notin DOMAIN key_map_
          /\ OfKey(enqueued, ExtractKey(enq_msg'.tag, enq_msg'.data)) = <<>>
  /\ key_map_' # key_map_
       => /\ DOMAIN key_map_' = DOMAIN key_map_ \cup {ExtractKey(enq_msg.tag, enq_msg.data)}
          /\ ExtractKey(enq_msg.tag, enq_msg.data) \notin DOMAIN key_map_
          /\ enq_pc \notin {"idle", "insert"}

\* C15: once Enqueue has given a key its slot index the key keeps it; distinct
\* keys have distinct indices; the number of slots never decreases and a slot
\* is created only by the first Enqueue of an unseen key.
C15_SlotStability ==
  []SlotsDistinct /\ [][SlotStep]_vars

\* Two keys have their slots, a later Enqueue of a key that had its slot has
\* gone through, and NextRequest has returned an envelope.
C15_SecondEnqueueOfKey ==
  /\ Cardinality(DOMAIN key_map_) >= 2
  /\ \E k \in DOMAIN key_map_ : Len(OfKey(enqueued, k)) >= 2
  /\ returned # <<>>

\* The number of payloads in the response pool.
PoolSize ==
  Cardinality({t \in MessageKinds \X Peers \X (1..MaxInbound) :
                 t[3] <= Len(response_queue_[t[1]][t[2]])})

\* The message the transceiver has received and not yet stored.
InFlight ==
  IF net_pc \in {"store", "enqueue"} \/ (net_pc = "enqueuing" /\ enq_pc # "idle")
  THEN 1 ELSE 0

\* No request is in the response pool, nothing but requests is in the request
\* queue, and every message received is in one place: the request queue's log,
\* the pool, a reader's hands, or still with the transceiver.
RoutedOnce ==
  /\ \A kind \in RequestTags : \A source \in Peers : response_queue_[kind][source] = <<>>
  /\ \A i \in 1..Len(enqueued) : enqueued[i].tag \in RequestTags
  /\ \A i \in 1..Len(request_queues_) : \A j \in 1..Len(request_queues_[i]) :
       request_queues_[i][j].tag \in RequestTags
  /\ inbound = Len(enqueued) + PoolSize + Len(taken) + InFlight

\* A FIFO of the pool grows only by the message just received, and it is the
\* FIFO of that message's tag and source; the request queue takes only the
\* message just received, under its tag and key.
RouteStep ==
  /\ \A kind \in MessageKinds : \A source \in Peers :
       Len(response_queue_'[kind][source]) > Len(response_queue_[kind][source])
         => /\ kind = net_in.tag /\ source = net_in.source
            /\ response_queue_'[kind][source] = Append(response_queue_[kind][source], inbound)
  /\ enqueued' # enqueued
       => /\ Len(enqueued') = Len(enqueued) + 1
          /\ SubSeq(enqueued', 1, Len(enqueued)) = enqueued
          /\ enqueued'[Len(enqueued')].tag = net_in.tag
          /\ enqueued'[Len(enqueued')].data.key = net_in.key

\* C13: every message the transceiver receives is stored in exactly one place
\* and none is dropped: a PUT_REQUEST or GET_REQUEST goes into the request queue
\* and never into the response pool, any other message is appended to the FIFO
\* of its tag and its source and never goes into the request queue.
C13_InboundRouting ==
  []RoutedOnce /\ [][RouteStep]_vars

\* All the messages have been received; a request has been enqueued and a
\* response stored.
C13_BothRouted ==
  /\ inbound = MaxInbound
  /\ InFlight = 0
  /\ enqueued # <<>>
  /\ PoolSize > 0

\* C17: the handler is not invoked on a request whose payload did not parse,
\* and no envelope whose payload does not parse gets through key extraction
\* into the request queue: the process has aborted before.
C17_ProtocolErrorFatal ==
  /\ \A i \in 1..Len(handled) : handled[i].parsed
  /\ \A i \in 1..Len(enqueued) : ParseFromArray(enqueued[i].data)

\* The step in which an engine thread calls Enqueue or NextRequest through
\* request_queue_.
UsesRequestQueue ==
  \/ net_pc = "enqueue" /\ net_pc' = "enqueuing"
  \/ proc_pc = "call" /\ proc_pc' = "next"

\* The step in which an engine thread reads callbacks_ or handles_.
UsesTables ==
  \/ net_pc = "callback" /\ net_pc' = "push"
  \/ proc_pc = "next" /\ proc_pc' = "loop"

\* C19: no engine thread calls Enqueue or NextRequest before the constructor
\* has created the request queue, or reads the callback and handler tables
\* before the constructor has cleared them.
C19_StartupOrdering ==
  [][/\ UsesRequestQueue => ctor_pc = "done"
     /\ UsesTables => ctor_pc \in {"create", "done"}]_vars

====
